---- MODULE Spec2Model ----
(***************************************************************************)
(* Model of app.py: the inspection report generator.                       *)
(*                                                                         *)
(* Text is modelled as a sequence of one-character strings, so that        *)
(* str.split, str.strip and str.replace are computed as Python computes    *)
(* them.  A cell of a sheet is a tagged value [t, v]: t = "str" with the   *)
(* text in v, t = "nan" (pandas' NaN / NaT), t = "none" (None) or          *)
(* t = "ts" (a parsed timestamp, v names the calendar date).               *)
(***************************************************************************)
EXTENDS Integers, Sequences, FiniteSets, TLC

VARIABLES
    p_raw, p_result, p_done,        \* parse_site_name: argument, result, called
    c_row, c_ctx, c_done,           \* build_context_from_row: argument, result, called
    template_exists,                \* os.path.exists("template.docx")
    pc,                             \* where the request being served is
    req,                            \* the request: route, method, form or query values, upload
    df_loaded,                      \* a frame with a Date column was fetched
    df_date,                        \* the rows of the sheet that match the target date
    sheet_fetches,                  \* pd.read_csv calls made for this request
    rows_begun,                     \* the row being processed, counted from 1 (0: none yet)
    cur_idx,                        \* preview: idx after the clamp
    urls,                           \* the trimmed, non-empty links of the row being processed
    links_done,                     \* links of that row processed so far
    dl,                             \* what happened to each processed link
    inline_images,                  \* inline_images / uris, each element the index of its link
    img_requests,                   \* requests.get calls made for this request, <<row, link>>
    archive,                        \* the entries written to the zip, in order
    resp                            \* the response, kind "none" while the request runs

parseVars == <<p_raw, p_result, p_done>>
ctxVars == <<c_row, c_ctx, c_done>>
reqVars == <<template_exists, pc, req, df_loaded, df_date, sheet_fetches, rows_begun, cur_idx, urls,
             links_done, dl, inline_images, img_requests, archive, resp>>
vars == <<p_raw, p_result, p_done, c_row, c_ctx, c_done, template_exists, pc, req,
          df_loaded, df_date, sheet_fetches, rows_begun, cur_idx, urls, links_done, dl, inline_images,
          img_requests,
          archive, resp>>

\* ------------------------------------------------------------------ bounds

MaxLen == 5

MaxCols == 2

MaxRows == 2

\* ------------------------------------------------------------------ text

Hyphen == "-"
Space == " "
Underscore == "_"

Chars == {Hyphen, Space, "a"}

RECURSIVE TextsUpTo(_)
TextsUpTo(n) ==
    IF n = 0 THEN {<<>>}
    ELSE LET shorter == TextsUpTo(n - 1)
         IN shorter \cup {Append(s, c) : s \in {x \in shorter : Len(x) = n - 1}, c \in Chars}

Str(s) == [t |-> "str", v |-> s]
NaN == [t |-> "nan", v |-> <<>>]
None == [t |-> "none", v |-> <<>>]
EmptyStr == Str(<<>>)

isinstance_str(x) == x.t = "str"

\* Index of the first occurrence of c in s, 0 when there is none.
Find(s, c) ==
    IF \E i \in 1..Len(s) : s[i] = c
    THEN CHOOSE i \in 1..Len(s) : s[i] = c /\ \A j \in 1..(i - 1) : s[j] # c
    ELSE 0

\* str.split(sep, maxsplit): at most maxsplit splits, the rest kept whole.
RECURSIVE split(_, _, _)
split(s, sep, maxsplit) ==
    LET i == Find(s, sep)
    IN IF maxsplit = 0 \/ i = 0 THEN <<s>>
       ELSE <<SubSeq(s, 1, i - 1)>> \o split(SubSeq(s, i + 1, Len(s)), sep, maxsplit - 1)

\* str.strip(): leading and trailing whitespace removed.
RECURSIVE lstrip(_)
lstrip(s) == IF s # <<>> /\ Head(s) = Space THEN lstrip(Tail(s)) ELSE s

RECURSIVE rstrip(_)
rstrip(s) ==
    IF s # <<>> /\ s[Len(s)] = Space THEN rstrip(SubSeq(s, 1, Len(s) - 1)) ELSE s

strip(s) == rstrip(lstrip(s))

\* str.replace(old, new) for one-character old and new.
replace(s, old, new) == [i \in 1..Len(s) |-> IF s[i] = old THEN new ELSE s[i]]

\* ------------------------------------------------------------------ parse_site_name

parse_site_name_splits_every_hyphen(raw) ==
    IF ~isinstance_str(raw) THEN <<<<>>, <<>>, <<>>>>
    ELSE LET parts == split(raw.v, Hyphen, Len(raw.v))
         IN IF Len(parts) < 3 THEN <<<<>>, <<>>, strip(raw.v)>>
            ELSE <<strip(parts[1]), strip(parts[2]), strip(parts[3])>>

parse_site_name(raw) ==
    IF ~isinstance_str(raw) THEN <<<<>>, <<>>, <<>>>>
    ELSE LET parts == split(raw.v, Hyphen, 2)
         IN IF Len(parts) < 3 THEN <<<<>>, <<>>, strip(raw.v)>>
            ELSE <<strip(parts[1]), strip(parts[2]), strip(parts[3])>>

\* ------------------------------------------------------------------ cells and dates

\* Calendar dates 2024-03-05 and 2024-03-06, named by their day digit.
Days == {"5", "6"}

Ts(d) == [t |-> "ts", v |-> <<d>>]

\* The text of a date as the sheet holds it and as str(date) prints it.
isoformat(d) == <<"2", "0", "2", "4", Hyphen, "0", "3", Hyphen, "0", d>>

\* Timestamp.strftime("%d/%m/%Y")
strftime_dmy(ts) == <<"0">> \o ts.v \o <<"/", "0", "3", "/", "2", "0", "2", "4">>

\* pd.to_datetime(cell, errors="coerce"): the timestamp of a date text, NaT
\* (the same null as NaN) for anything else.
to_datetime_coerce(x) ==
    IF isinstance_str(x) /\ \E d \in Days : x.v = isoformat(d)
    THEN Ts(CHOOSE d \in Days : x.v = isoformat(d))
    ELSE NaN

\* pd.isna
isna(x) == x.t \in {"nan", "none"}

\* Python truth value: None and the empty string are false, NaN is true.
truthy(x) == ~(x.t = "none" \/ (x.t = "str" /\ x.v = <<>>))

\* a or b
py_or(a, b) == IF truthy(a) THEN a ELSE b

\* str(x), as text
py_str(x) ==
    CASE x.t = "str" -> x.v
      [] x.t = "nan" -> <<"n", "a", "n">>
      [] x.t = "none" -> <<"N", "o", "n", "e">>
      [] x.t = "ts" -> isoformat(x.v[1])

\* row.get(col, default)
get(row, col, default) == IF col \in DOMAIN row THEN row[col] ELSE default

\* ------------------------------------------------------------------ build_context_from_row

\* The columns copied verbatim, by context field.
CopiedColumn ==
    [time |-> "Time",
     attendance_register |-> "Documentation Check [Attendance Register]",
     handling_register |-> "Documentation Check [Handling / Taking Over Register]",
     material_register |-> "Documentation Check [Visitor Log Register]",
     grooming |-> "Performance Check [Grooming]",
     alertness |-> "Performance Check [Alertness]",
     post_discipline |-> "Performance Check [Post Discipline]",
     overall_rating |-> "Performance Check [Overall Rating]",
     observation |-> "Observation",
     inspected_by |-> "Inspected By"]

CopiedFields == DOMAIN CopiedColumn

\* The date field: the parsed date as DD/MM/YYYY, or the text of the Date cell.
formatted_date(row) ==
    LET parsed_date == get(row, "Date_parsed", None)
        fallback == Str(py_str(py_or(get(row, "Date", EmptyStr), EmptyStr)))
    IN IF parsed_date.t # "none" /\ ~isna(parsed_date)
       THEN IF parsed_date.t = "ts" THEN Str(strftime_dmy(parsed_date)) ELSE fallback
       ELSE fallback

\* The context before the loop over its items.
raw_context(row) ==
    LET raw_site == get(row, "Site Name", EmptyStr)
        parsed == parse_site_name(raw_site)
    IN [k \in {"zone", "unit_code", "site_name", "date"} \cup CopiedFields |->
          CASE k = "zone" -> Str(parsed[1])
            [] k = "unit_code" -> Str(parsed[2])
            [] k = "site_name" -> py_or(Str(parsed[3]), raw_site)
            [] k = "date" -> formatted_date(row)
            [] OTHER -> get(row, CopiedColumn[k], EmptyStr)]

build_context_from_row(row) ==
    LET ctx == raw_context(row)
    IN [k \in DOMAIN ctx |-> IF isna(ctx[k]) THEN EmptyStr ELSE ctx[k]]

\* ------------------------------------------------------------------ images of a row

Comma == ","

\* In the text of an Images cell, "L" stands for a link text from which a
\* Drive file id can be extracted (it matches id=<id> or /d/<id>/), "N" for
\* a link text from which none can.
LinkWithId == "L"
LinkWithoutId == "N"

\* extract_drive_file_id: the id, or the empty text.
extract_drive_file_id(url) ==
    IF \E n \in 1..Len(url) : url[n] = LinkWithId THEN <<"i", "d">> ELSE <<>>

NonEmptyText(u) == u # <<>>

\* [u.strip() for u in images_raw.split(",") if u.strip()], [] for an empty cell
image_urls(row) ==
    LET images_raw == py_str(py_or(get(row, "Images", EmptyStr), EmptyStr))
        parts == split(images_raw, Comma, Len(images_raw))
    IN IF images_raw = <<>> THEN <<>>
       ELSE SelectSeq([n \in 1..Len(parts) |-> strip(parts[n])], NonEmptyText)

\* What requests.get and the checks after it can come to, for a link with a
\* file id: the call raises; a status other than 200; a content type that is
\* not image/*; image bytes.  Image bytes are then handed to InlineImage,
\* which takes them, raises UnrecognizedImageError, or raises another error
\* of the image library (a truncated PNG or JPEG).
DownloadFailures == {"raised", "status", "ctype"}
EmbedOutcomes == {"image_ok", "image_unrecognized", "image_corrupt"}

\* download_drive_image returned a stream
downloaded(o) == o \in EmbedOutcomes \cup {"image"}

\* The requests.get calls download_drive_image makes for link n of row r.
drive_requests_with_retry(r, n, url) ==
    IF extract_drive_file_id(url) = <<>> THEN <<>> ELSE << <<r, n>>, <<r, n>> >>

drive_requests(r, n, url) ==
    IF extract_drive_file_id(url) = <<>> THEN <<>> ELSE << <<r, n>> >>

\* inline_images after link n came to o (render_docx_row): appended unless
\* there is no stream or InlineImage raised UnrecognizedImageError.
embed_inline_image_prepends(images, n, o) ==
    IF o = "image_ok" THEN <<n>> \o images ELSE images

embed_inline_image(images, n, o) ==
    IF o = "image_ok" THEN Append(images, n) ELSE images

\* uris after link n came to o (get_image_data_uris_for_row).
append_data_uri(uris, n, o) ==
    IF downloaded(o) THEN Append(uris, n) ELSE uris

\* ------------------------------------------------------------------ archive

DocxSuffix == <<".", "d", "o", "c", "x">>
SiteDefault == <<"S", "i", "t", "e">>

site_slug_keeps_spaces(row) ==
    LET sitename == parse_site_name(get(row, "Site Name", Str(SiteDefault)))[3]
    IN IF sitename = <<>> THEN SiteDefault ELSE sitename

\* (sitename or "Site").replace(" ", "_")
site_slug(row) ==
    LET sitename == parse_site_name(get(row, "Site Name", Str(SiteDefault)))[3]
    IN replace(IF sitename = <<>> THEN SiteDefault ELSE sitename, Space, Underscore)

\* f"{target_date}_{site_slug}.docx"
zip_filename(target_date, row) ==
    isoformat(target_date) \o <<Underscore>> \o site_slug(row) \o DocxSuffix

zip_writestr_overwrites(entries, name, doc) ==
    Append(SelectSeq(entries, LAMBDA e : e.name # name), [name |-> name, doc |-> doc])

\* ZipFile.writestr: the entry is appended; an entry of the same name stays
\* in the archive (zipfile only warns "Duplicate name").
zip_writestr(entries, name, doc) == Append(entries, [name |-> name, doc |-> doc])

\* ZipFile.read(name): the last entry written under the name.
zip_read(entries, name) ==
    entries[CHOOSE n \in 1..Len(entries) :
                /\ entries[n].name = name
                /\ \A m \in (n + 1)..Len(entries) : entries[m].name # name].doc

\* ------------------------------------------------------------------ requests

SheetInputs == {<<Space>>, <<"a">>}
DateInputs == {<<>>, <<"a">>, isoformat("5")}
ActionInputs == {"absent", "download_zip", "preview", "other"}
UploadInputs == {"none", "not_docx", "docx_empty", "docx"}

\* idx in the query: a text int() rejects, or an integer.
IdxInputs ==
    {[numeric |-> FALSE, n |-> 0]} \cup {[numeric |-> TRUE, n |-> n] : n \in -1..(MaxRows + 1)}

NoRequest ==
    [route |-> "none", method |-> "none", sheet_input |-> <<>>, date_str |-> <<>>,
     action |-> "absent", upload |-> "none", idx |-> [numeric |-> FALSE, n |-> 0]]

IndexRequests ==
    {[route |-> "index", method |-> "POST", sheet_input |-> s, date_str |-> d,
      action |-> a, upload |-> u, idx |-> [numeric |-> FALSE, n |-> 0]] :
        s \in SheetInputs, d \in DateInputs, a \in ActionInputs, u \in UploadInputs}

PreviewRequests ==
    {[route |-> "preview", method |-> "GET", sheet_input |-> s, date_str |-> d,
      action |-> "absent", upload |-> "none", idx |-> x] :
        s \in SheetInputs, d \in DateInputs, x \in IdxInputs}

\* datetime.strptime(date_str, "%Y-%m-%d") succeeds
valid_date(date_str) == \E d \in Days : date_str = isoformat(d)

target_date_of(date_str) == CHOOSE d \in Days : date_str = isoformat(d)

\* request.form.get("action", "download_zip")
form_action(r) == IF r.action = "absent" THEN "download_zip" ELSE r.action

\* ------------------------------------------------------------------ sheets

SheetSiteTexts == {<<"z", Hyphen, "u", Hyphen, "a", Space, "b">>, <<"a", Underscore, "b">>}

ImagesTexts ==
    {<<>>, <<LinkWithId, Comma, Space, Comma, LinkWithoutId, Comma, Space, LinkWithId>>}

SheetCellValues(col) ==
    CASE col = "Date" -> {Str(isoformat(d)) : d \in Days}
      [] col = "Site Name" -> {NaN} \cup {Str(s) : s \in SheetSiteTexts}
      [] col = "Images" -> {NaN} \cup {Str(s) : s \in ImagesTexts}

SheetColumnSets == {{"Date", "Site Name", "Images"}, {"Date", "Images"}, {"Site Name", "Images"}}

SheetRows(S) ==
    {r \in [S -> UNION {SheetCellValues(col) : col \in S}] :
        \A col \in S : r[col] \in SheetCellValues(col)}

RECURSIVE SeqsUpTo(_, _)
SeqsUpTo(S, n) ==
    IF n = 0 THEN {<<>>}
    ELSE LET shorter == SeqsUpTo(S, n - 1)
         IN shorter \cup {Append(q, x) : q \in {y \in shorter : Len(y) = n - 1}, x \in S}

\* What pd.read_csv comes to: it raises, or a frame.  A frame without the
\* Date column is never filtered, so one row stands for all of them.
FetchResults ==
    {[ok |-> FALSE, columns |-> {}, rows |-> <<>>]}
    \cup UNION {{[ok |-> TRUE, columns |-> S, rows |-> q] :
                    q \in SeqsUpTo(SheetRows(S), IF "Date" \in S THEN MaxRows ELSE 1)} :
                 S \in SheetColumnSets}

\* df["Date_parsed"] = pd.to_datetime(df["Date"], errors="coerce")
with_date_parsed(row) ==
    [col \in DOMAIN row \cup {"Date_parsed"} |->
        IF col = "Date_parsed" THEN to_datetime_coerce(row["Date"]) ELSE row[col]]

\* df[df["Date_parsed"].dt.date == target_date]
filter_by_date(rows, target_date) ==
    SelectSeq([n \in 1..Len(rows) |-> with_date_parsed(rows[n])],
              LAMBDA row : row["Date_parsed"] = Ts(target_date))

\* ------------------------------------------------------------------ responses

NoPage == [current_index |-> 0, total |-> 0, has_prev |-> FALSE, has_next |-> FALSE,
           images_html |-> <<>>]

NoResponse == [kind |-> "none", notice |-> "", page |-> NoPage]

\* flash(notice) and redirect(url_for("index"))
NoticeAndRedirect(notice) == [kind |-> "redirect_index", notice |-> notice, page |-> NoPage]

\* redirect(url_for("preview", ..., idx=0))
RedirectToPreview == [kind |-> "redirect_preview", notice |-> "", page |-> NoPage]

\* send_file(zip_buffer, ...)
ArchiveSent == [kind |-> "archive", notice |-> "", page |-> NoPage]

\* render_template("index.html", ...)
FormPage == [kind |-> "form", notice |-> "", page |-> NoPage]

\* An exception no handler catches: the response is an internal server error.
Unhandled(exception) == [kind |-> "error500", notice |-> exception, page |-> NoPage]

PreviewPage(idx, total, uris) ==
    [kind |-> "preview_page", notice |-> "",
     page |-> [current_index |-> idx, total |-> total, has_prev |-> idx > 0,
               has_next |-> idx < total - 1, images_html |-> uris]]

IdleParse == p_raw = EmptyStr /\ p_result = <<>> /\ p_done = FALSE
IdleCtx == c_row = <<>> /\ c_ctx = <<>> /\ c_done = FALSE

IdleReq ==
    /\ template_exists = FALSE
    /\ pc = "idle"
    /\ req = NoRequest
    /\ df_loaded = FALSE
    /\ df_date = <<>>
    /\ sheet_fetches = 0
    /\ rows_begun = 0
    /\ cur_idx = 0
    /\ urls = <<>>
    /\ links_done = 0
    /\ dl = <<>>
    /\ inline_images = <<>>
    /\ img_requests = <<>>
    /\ archive = <<>>
    /\ resp = NoResponse

\* ------------------------------------------------------------------ handlers

\* The row of df_date being rendered.
current_row == df_date[rows_begun]

\* The upload as index() reads it: template_bytes is None, b"" or the
\* bytes of the file; template_path is None or "template.docx".
template_bytes_of(upload) ==
    CASE upload = "docx" -> "bytes" [] upload = "docx_empty" -> "empty" [] OTHER -> "None"

template_path_of(upload) == IF upload = "none" THEN "template.docx" ELSE "None"

template_check_skipped(template_bytes, template_path, exists) == "ok"

\* if not template_bytes and not os.path.exists(template_path):
\* os.path.exists(None) raises TypeError.
template_check(template_bytes, template_path, exists) ==
    IF template_bytes = "bytes" THEN "ok"
    ELSE IF template_path = "None" THEN "TypeError"
    ELSE IF ~exists THEN "missing"
    ELSE "ok"

\* render_docx_row finds a template to open.
template_opens(template_bytes, template_path, exists) ==
    template_bytes = "bytes" \/ (template_path # "None" /\ exists)

clamp_index_upper_only(idx, total) == IF idx > total - 1 THEN total - 1 ELSE idx

\* if idx < 0: idx = 0;  if idx > total - 1: idx = total - 1
clamp_index(idx, total) ==
    LET low == IF idx < 0 THEN 0 ELSE idx
    IN IF low > total - 1 THEN total - 1 ELSE low

\* int(idx_str), 0 on ValueError
int_or_zero(x) == IF x.numeric THEN x.n ELSE 0

\* The position in df_date (from 1) that df_date.iloc[idx] reads.
iloc(idx, total) == IF idx < 0 THEN total + idx + 1 ELSE idx + 1

\* The request ends with response r.
Respond(r) ==
    /\ pc' = "done"
    /\ resp' = r

\* A handler is entered.
Enter(r) ==
    /\ pc = "idle"
    /\ req' = r
    /\ rows_begun' = 0
    /\ cur_idx' = 0
    /\ urls' = <<>>
    /\ links_done' = 0
    /\ dl' = <<>>
    /\ inline_images' = <<>>
    /\ img_requests' = <<>>
    /\ archive' = <<>>
    /\ UNCHANGED <<template_exists, parseVars, ctxVars>>

\* if not sheet_input or not date_str / strptime raises ValueError
input_notice(r) ==
    IF strip(r.sheet_input) = <<>> \/ strip(r.date_str) = <<>> THEN "missing_input"
    ELSE IF ~valid_date(strip(r.date_str)) THEN "bad_date"
    ELSE ""

\* load_sheet_via_csv raised, or the frame has no Date column
sheet_notice(fetch) ==
    IF ~fetch.ok THEN "load_failed"
    ELSE IF "Date" \notin fetch.columns THEN "no_date_column"
    ELSE ""

\* index(), GET: the form.
IndexGet ==
    /\ Enter([NoRequest EXCEPT !.route = "index", !.method = "GET"])
    /\ df_loaded' = FALSE
    /\ df_date' = <<>>
    /\ sheet_fetches' = 0
    /\ Respond(FormPage)

\* index(), POST, the input checks fail: no sheet is fetched.
IndexPostRejected ==
    /\ pc = "idle"
    /\ \E r \in IndexRequests :
        /\ input_notice(r) # ""
        /\ Enter(r)
        /\ df_loaded' = FALSE
        /\ df_date' = <<>>
        /\ sheet_fetches' = 0
        /\ Respond(NoticeAndRedirect(input_notice(r)))

\* index(), POST, from the sheet fetch to the dispatch on the action.
IndexPost ==
    /\ pc = "idle"
    /\ \E r \in {x \in IndexRequests : input_notice(x) = ""}, fetch \in FetchResults :
        /\ Enter(r)
        /\ sheet_fetches' = 1
        /\ LET target_date == target_date_of(strip(r.date_str))
               rows == IF sheet_notice(fetch) = "" THEN filter_by_date(fetch.rows, target_date)
                       ELSE <<>>
               checked == template_check(template_bytes_of(r.upload),
                                          template_path_of(r.upload), template_exists)
           IN /\ df_loaded' = (sheet_notice(fetch) = "")
              /\ df_date' = rows
              /\ IF sheet_notice(fetch) # "" THEN Respond(NoticeAndRedirect(sheet_notice(fetch)))
                 ELSE IF rows = <<>> THEN Respond(NoticeAndRedirect("no_records"))
                 ELSE IF r.upload = "not_docx" THEN Respond(NoticeAndRedirect("not_docx"))
                 ELSE IF form_action(r) = "download_zip"
                      THEN IF checked = "TypeError" THEN Respond(Unhandled("TypeError"))
                           ELSE IF checked = "missing"
                                THEN Respond(NoticeAndRedirect("no_template"))
                           ELSE pc' = "zip_row" /\ resp' = NoResponse
                 ELSE IF form_action(r) = "preview" THEN Respond(RedirectToPreview)
                 ELSE Respond(NoticeAndRedirect("unknown_action"))

\* The loop over df_date reaches a row: render_docx_row opens the template,
\* builds the context and splits the Images cell.
ZipNextRow ==
    /\ pc = "zip_row"
    /\ rows_begun < Len(df_date)
    /\ IF template_opens(template_bytes_of(req.upload), template_path_of(req.upload),
                         template_exists)
       THEN /\ rows_begun' = rows_begun + 1
            /\ urls' = image_urls(df_date[rows_begun + 1])
            /\ pc' = "zip_img"
            /\ resp' = resp
       ELSE /\ Respond(Unhandled("FileNotFoundError"))
            /\ UNCHANGED <<rows_begun, urls>>
    /\ links_done' = 0
    /\ dl' = <<>>
    /\ inline_images' = <<>>
    /\ UNCHANGED <<template_exists, req, df_loaded, df_date, sheet_fetches, cur_idx, img_requests,
                   archive, parseVars, ctxVars>>

\* render_docx_row, one link: download_drive_image, then InlineImage.  An
\* error of InlineImage other than UnrecognizedImageError is not caught, in
\* render_docx_row or in index().
ZipImage ==
    /\ pc = "zip_img"
    /\ links_done < Len(urls)
    /\ LET n == links_done + 1
           url == urls[n]
       IN \E o \in IF extract_drive_file_id(url) = <<>> THEN {"noid"}
                   ELSE DownloadFailures \cup EmbedOutcomes :
            /\ img_requests' = img_requests \o drive_requests(rows_begun, n, url)
            /\ dl' = Append(dl, o)
            /\ links_done' = n
            /\ inline_images' = embed_inline_image(inline_images, n, o)
            /\ IF o = "image_corrupt" THEN Respond(Unhandled("ImageError"))
               ELSE pc' = pc /\ resp' = resp
    /\ UNCHANGED <<template_exists, req, df_loaded, df_date, sheet_fetches, rows_begun, cur_idx, urls,
                   archive, parseVars, ctxVars>>

\* render_docx_row renders and returns; the document is written to the zip.
ZipWriteRow ==
    /\ pc = "zip_img"
    /\ links_done = Len(urls)
    /\ archive' = zip_writestr(archive,
                               zip_filename(target_date_of(strip(req.date_str)), current_row),
                               [row |-> rows_begun, images |-> inline_images])
    /\ pc' = "zip_row"
    /\ UNCHANGED <<template_exists, req, df_loaded, df_date, sheet_fetches, rows_begun, cur_idx, urls,
                   links_done, dl, inline_images, img_requests, resp, parseVars, ctxVars>>

\* The loop is over: send_file.
ZipSend ==
    /\ pc = "zip_row"
    /\ rows_begun = Len(df_date)
    /\ Respond(ArchiveSent)
    /\ UNCHANGED <<template_exists, req, df_loaded, df_date, sheet_fetches, rows_begun, cur_idx, urls,
                   links_done, dl, inline_images, img_requests, archive, parseVars, ctxVars>>

\* preview(), the input checks fail.
PreviewRejected ==
    /\ pc = "idle"
    /\ \E r \in PreviewRequests :
        /\ input_notice(r) # ""
        /\ Enter(r)
        /\ df_loaded' = FALSE
        /\ df_date' = <<>>
        /\ sheet_fetches' = 0
        /\ Respond(NoticeAndRedirect(input_notice(r)))

\* preview(), from the sheet fetch to the context of the row served.
PreviewLoad ==
    /\ pc = "idle"
    /\ \E r \in {x \in PreviewRequests : input_notice(x) = ""}, fetch \in FetchResults :
        /\ req' = r
        /\ sheet_fetches' = 1
        /\ LET target_date == target_date_of(strip(r.date_str))
               rows == IF sheet_notice(fetch) = "" THEN filter_by_date(fetch.rows, target_date)
                       ELSE <<>>
               idx == clamp_index(int_or_zero(r.idx), Len(rows))
           IN /\ df_loaded' = (sheet_notice(fetch) = "")
              /\ df_date' = rows
              /\ IF sheet_notice(fetch) # ""
                 THEN /\ Respond(NoticeAndRedirect(sheet_notice(fetch)))
                      /\ rows_begun' = 0 /\ cur_idx' = 0 /\ urls' = <<>>
                 ELSE IF rows = <<>>
                 THEN /\ Respond(NoticeAndRedirect("no_records"))
                      /\ rows_begun' = 0 /\ cur_idx' = 0 /\ urls' = <<>>
                 ELSE /\ pc' = "prev_img" /\ resp' = NoResponse
                      /\ cur_idx' = idx
                      /\ rows_begun' = iloc(idx, Len(rows))
                      /\ urls' = image_urls(rows[iloc(idx, Len(rows))])
        /\ links_done' = 0
        /\ dl' = <<>>
        /\ inline_images' = <<>>
        /\ img_requests' = <<>>
        /\ archive' = <<>>
        /\ UNCHANGED <<template_exists, parseVars, ctxVars>>

\* get_image_data_uris_for_row, one link.
PreviewImage ==
    /\ pc = "prev_img"
    /\ links_done < Len(urls)
    /\ LET n == links_done + 1
           url == urls[n]
       IN \E o \in IF extract_drive_file_id(url) = <<>> THEN {"noid"}
                   ELSE DownloadFailures \cup {"image"} :
            /\ img_requests' = img_requests \o drive_requests(rows_begun, n, url)
            /\ dl' = Append(dl, o)
            /\ links_done' = n
            /\ inline_images' = append_data_uri(inline_images, n, o)
    /\ UNCHANGED <<template_exists, pc, req, df_loaded, df_date, sheet_fetches, rows_begun, cur_idx, urls,
                   archive, resp, parseVars, ctxVars>>

\* preview() renders the page of the row.
PreviewRender ==
    /\ pc = "prev_img"
    /\ links_done = Len(urls)
    /\ Respond(PreviewPage(cur_idx, Len(df_date), inline_images))
    /\ UNCHANGED <<template_exists, req, df_loaded, df_date, sheet_fetches, rows_begun, cur_idx, urls,
                   links_done, dl, inline_images, img_requests, archive, parseVars, ctxVars>>

\* The response is out: the buffers of the request are released and the
\* next request can be served.  Nothing is kept from one request to the next.
Release ==
    /\ pc = "done"
    /\ pc' = "idle"
    /\ req' = NoRequest
    /\ df_loaded' = FALSE
    /\ df_date' = <<>>
    /\ sheet_fetches' = 0
    /\ rows_begun' = 0
    /\ cur_idx' = 0
    /\ urls' = <<>>
    /\ links_done' = 0
    /\ dl' = <<>>
    /\ inline_images' = <<>>
    /\ img_requests' = <<>>
    /\ archive' = <<>>
    /\ resp' = NoResponse
    /\ UNCHANGED <<template_exists, parseVars, ctxVars>>

\* ------------------------------------------------------------------ Spec
\* Requests served one after another, the default template present or not.

Init ==
    /\ template_exists \in BOOLEAN
    /\ pc = "idle"
    /\ req = NoRequest
    /\ df_loaded = FALSE
    /\ df_date = <<>>
    /\ sheet_fetches = 0
    /\ rows_begun = 0
    /\ cur_idx = 0
    /\ urls = <<>>
    /\ links_done = 0
    /\ dl = <<>>
    /\ inline_images = <<>>
    /\ img_requests = <<>>
    /\ archive = <<>>
    /\ resp = NoResponse
    /\ IdleParse
    /\ IdleCtx

Next ==
    \/ IndexGet
    \/ IndexPostRejected
    \/ IndexPost
    \/ ZipNextRow
    \/ ZipImage
    \/ ZipWriteRow
    \/ ZipSend
    \/ PreviewRejected
    \/ PreviewLoad
    \/ PreviewImage
    \/ PreviewRender
    \/ Release

Spec == Init /\ [][Next]_vars

\* ------------------------------------------------------------------ claims on Spec

IsIndexPost == req.route = "index" /\ req.method = "POST"
IsPreview == req.route = "preview"
OnDownloadPath == IsIndexPost /\ form_action(req) = "download_zip"
TargetDate == target_date_of(strip(req.date_str))

\* The numbers m of 1..n, in order, for which P(m) holds.
NumbersWhere(n, P(_)) == SelectSeq([m \in 1..n |-> m], P)

\* C1: the preview handler serves an index in [0, total-1]: a requested idx
\* above total-1 is served as total-1, a negative one as 0, one in range
\* unchanged, and the row read is the row at that index; when the filtered
\* row set is empty no row is served and the "no records" notice is raised.
C1_PreviewIndexClamped ==
    /\ (IsPreview /\ pc \in {"prev_img", "done"} /\ df_date # <<>>) =>
          LET total == Len(df_date)
              asked == req.idx
          IN /\ cur_idx \in 0..(total - 1)
             /\ rows_begun = cur_idx + 1
             /\ (asked.numeric /\ asked.n > total - 1) => cur_idx = total - 1
             /\ (asked.numeric /\ asked.n < 0) => cur_idx = 0
             /\ (asked.numeric /\ asked.n \in 0..(total - 1)) => cur_idx = asked.n
             /\ pc = "done" =>
                   /\ resp.kind = "preview_page"
                   /\ resp.page.current_index = cur_idx
                   /\ resp.page.total = total
    /\ (IsPreview /\ pc = "done" /\ df_loaded /\ df_date = <<>>) =>
          /\ resp = NoticeAndRedirect("no_records")
          /\ rows_begun = 0

\* An idx beyond the last of two rows has been served as the last row.
C1_Witness ==
    /\ IsPreview
    /\ resp.kind = "preview_page"
    /\ Len(df_date) = 2
    /\ req.idx.numeric
    /\ req.idx.n > 1
    /\ resp.page.current_index = 1

SiteCell(row) == get(row, "Site Name", Str(SiteDefault))

SameSiteName(a, b) ==
    /\ "Site Name" \in DOMAIN df_date[a]
    /\ isinstance_str(df_date[a]["Site Name"])
    /\ df_date[a]["Site Name"] = df_date[b]["Site Name"]

EntriesNamed(name) == {n \in 1..Len(archive) : archive[n].name = name}

IsUnderscored(slug, text) ==
    /\ Len(slug) = Len(text)
    /\ \A j \in 1..Len(text) : slug[j] = (IF text[j] = Space THEN Underscore ELSE text[j])

\* name is <date>_<site-slug>.docx for the site name cell.
IsEntryName(name, date, cell) ==
    LET sitename == parse_site_name(cell)[3]
        head == isoformat(date) \o <<Underscore>>
        slug == SubSeq(name, Len(head) + 1, Len(name) - Len(DocxSuffix))
    IN /\ Len(name) >= Len(head) + Len(DocxSuffix)
       /\ SubSeq(name, 1, Len(head)) = head
       /\ SubSeq(name, Len(name) - Len(DocxSuffix) + 1, Len(name)) = DocxSuffix
       /\ IF sitename = <<>> THEN slug = SiteDefault ELSE IsUnderscored(slug, sitename)

\* C3: an archive built from rows with pairwise distinct site names holds
\* exactly one entry per row, in row order, each named <date>_<site-slug>.docx
\* with the slug the parsed site name, spaces replaced by underscores, or
\* "Site" when the parsed site name is empty.
C3_OneEntryPerRowNamedBySite ==
    (OnDownloadPath /\ resp.kind = "archive"
        /\ \A a, b \in 1..Len(df_date) : a # b => SiteCell(df_date[a]) # SiteCell(df_date[b])) =>
            /\ Len(archive) = Len(df_date)
            /\ \A n \in 1..Len(archive) :
                  /\ archive[n].doc.row = n
                  /\ IsEntryName(archive[n].name, TargetDate, SiteCell(df_date[n]))

\* An archive of two rows has been sent, one site name with a space in it
\* and one that is not a text: two entries, two names.
C3_Witness ==
    /\ OnDownloadPath
    /\ resp.kind = "archive"
    /\ Len(df_date) = 2
    /\ Len(archive) = 2
    /\ archive[1].name # archive[2].name
    /\ \E n \in 1..2 : parse_site_name(SiteCell(df_date[n]))[3] = <<"a", Space, "b">>
    /\ \E n \in 1..2 : ~isinstance_str(SiteCell(df_date[n]))

\* C4: on the download path with no upload and no template.docx, the request
\* ends with the template-missing notice and a redirect to the form, no
\* archive entry is written, no row is rendered and no image requested; on
\* the preview path (the preview action and the preview route) a missing
\* template is no error.
C4_MissingTemplateOnlyFailsDownload ==
    /\ (OnDownloadPath /\ req.upload = "none" /\ ~template_exists /\ df_date # <<>>) =>
          /\ pc = "done"
          /\ resp = NoticeAndRedirect("no_template")
          /\ archive = <<>>
          /\ rows_begun = 0
          /\ img_requests = <<>>
    /\ (IsIndexPost /\ form_action(req) = "preview" /\ req.upload # "not_docx"
            /\ df_date # <<>>) => resp = RedirectToPreview
    /\ (IsPreview /\ pc = "done" /\ df_date # <<>>) => resp.kind = "preview_page"
    /\ (IsPreview \/ (IsIndexPost /\ form_action(req) = "preview")) =>
          resp.notice # "no_template"

\* A download request with matching rows has ended with the template-missing notice.
C4_Witness ==
    /\ OnDownloadPath
    /\ req.upload = "none"
    /\ ~template_exists
    /\ df_date # <<>>
    /\ resp = NoticeAndRedirect("no_template")

\* C5 as stated: every submission of the form ends with the archive sent, a
\* redirect to the preview route, or a notice and a redirect to the form;
\* none ends as an unhandled error.
C5_EverySubmissionEndsInThreeOutcomes ==
    (IsIndexPost /\ pc = "done") =>
        \/ resp.kind \in {"archive", "redirect_preview"}
        \/ resp.kind = "redirect_index" /\ resp.notice # ""

\* C6 as stated: whatever happens to an image link (no file id, the download
\* raises, a bad status, a content type that is no image, bytes that are no
\* recognizable or a corrupt image), the link is skipped and the rendering of
\* the row goes on.
C6_ImageNeverAbortsRender ==
    (OnDownloadPath /\ rows_begun > 0 /\ dl # <<>>) =>
        /\ resp.kind # "error500"
        /\ pc \in {"zip_img", "zip_row", "done"}
        /\ pc = "done" => resp.kind = "archive"

\* The links of row n, in order: every one, and those with a file id.
LinksOfRow(n, upto) == [m \in 1..upto |-> <<n, m>>]

LinksWithIdOfRow(n, upto) ==
    SelectSeq(LinksOfRow(n, upto),
              LAMBDA e : extract_drive_file_id(image_urls(df_date[n])[e[2]]) # <<>>)

RECURSIVE LinksOfRows(_)
LinksOfRows(n) ==
    IF n = 0 THEN <<>>
    ELSE LinksOfRows(n - 1) \o LinksOfRow(n, Len(image_urls(df_date[n])))

RECURSIVE LinksWithIdOfRows(_)
LinksWithIdOfRows(n) ==
    IF n = 0 THEN <<>>
    ELSE LinksWithIdOfRows(n - 1) \o LinksWithIdOfRow(n, Len(image_urls(df_date[n])))

SheetFetchedAtMostOnce ==
    /\ sheet_fetches <= 1
    /\ (pc = "done" /\ req.method # "GET" /\ input_notice(req) # "") => sheet_fetches = 0
    /\ (IsPreview /\ pc = "done" /\ input_notice(req) # "") => sheet_fetches = 0

\* C9 as stated: the sheet is fetched at most once, and not when the input
\* checks fail; on the download path every non-empty image link of every
\* matching row is downloaded exactly once, in row order then link order
\* (stated of the rows whose Images cell is a text).
C9_EveryLinkDownloadedOnce ==
    /\ SheetFetchedAtMostOnce
    /\ (OnDownloadPath /\ resp.kind = "archive"
            /\ \A n \in 1..Len(df_date) : isinstance_str(df_date[n]["Images"])) =>
          img_requests = LinksOfRows(Len(df_date))

\* C9 amended: the sheet is fetched at most once, and not when the input
\* checks fail; the image requests made are, at every moment, one for each
\* link with an extractable file id among the links processed so far, in row
\* order then link order, whatever the earlier downloads came to (a link
\* without a file id is skipped with no request); when the archive is sent
\* these are all such links of all matching rows.
C9_LinksWithIdRequestedOnceInOrder ==
    /\ SheetFetchedAtMostOnce
    /\ (OnDownloadPath /\ rows_begun > 0) =>
          img_requests = LinksWithIdOfRows(rows_begun - 1)
                           \o LinksWithIdOfRow(rows_begun, links_done)
    /\ (OnDownloadPath /\ resp.kind = "archive") =>
          img_requests = LinksWithIdOfRows(Len(df_date))
    /\ (OnDownloadPath /\ rows_begun = 0) => img_requests = <<>>
    /\ (IsPreview /\ rows_begun > 0) =>
          img_requests = LinksWithIdOfRow(rows_begun, links_done)

\* An archive of two rows has been sent after four image requests, the
\* first of which failed.
C9_Witness ==
    /\ OnDownloadPath
    /\ resp.kind = "archive"
    /\ Len(df_date) = 2
    /\ img_requests = << <<1, 1>>, <<1, 3>>, <<2, 1>>, <<2, 3>> >>
    /\ sheet_fetches = 1

\* The comma-separated pieces of the Images cell of a row.
CommaPieces(row) ==
    LET images_raw == py_str(py_or(get(row, "Images", EmptyStr), EmptyStr))
    IN IF images_raw = <<>> THEN 0
       ELSE Cardinality({j \in 1..Len(images_raw) : images_raw[j] = Comma}) + 1

\* The image list of a row is being built, or has been put in a document or a page.
ImagesOfRowKnown ==
    /\ rows_begun > 0
    /\ \/ OnDownloadPath /\ pc \in {"zip_img", "zip_row"}
       \/ IsPreview /\ pc \in {"prev_img", "done"}

\* The image list of a row has been put in a document or a page.
ImagesOfRowPlaced ==
    /\ rows_begun > 0
    /\ \/ OnDownloadPath /\ pc = "zip_row"
       \/ IsPreview /\ pc = "done"

ImagesPlaced ==
    /\ (OnDownloadPath /\ pc = "zip_row") => archive[Len(archive)].doc.images = inline_images
    /\ (IsPreview /\ pc = "done") => resp.page.images_html = inline_images

CtxColumns == {"Site Name", "Date", "Date_parsed"} \cup {CopiedColumn[k] : k \in CopiedFields}

SiteTexts ==
    {<<>>, <<"a">>, <<"z", Hyphen, "u", Hyphen, "a", Space, "b">>,
     <<"z", Hyphen, "u", Hyphen>>}

CellValues(col) ==
    CASE col = "Site Name" -> {NaN, None} \cup {Str(s) : s \in SiteTexts}
      [] col = "Date" -> {NaN, None, EmptyStr, Str(<<"a">>)} \cup {Str(isoformat(d)) : d \in Days}
      [] col = "Date_parsed" -> {NaN} \cup {Ts(d) : d \in Days}
      [] OTHER -> {NaN, None, EmptyStr, Str(<<"a">>)}

AllCellValues == UNION {CellValues(col) : col \in CtxColumns}

CtxRows ==
    UNION {
        {r \in [S -> AllCellValues] :
            /\ \A col \in S : r[col] \in CellValues(col)
            /\ "Date_parsed" \in S =>
                  r["Date_parsed"] = to_datetime_coerce(get(r, "Date", NaN))}
        : S \in {T \in SUBSET CtxColumns : Cardinality(T) <= MaxCols} }

\* ------------------------------------------------------------------ SpecParse
\* parse_site_name applied to every text of at most MaxLen characters, and to
\* a value that is not a string.

InitParse ==
    /\ p_raw \in {Str(s) : s \in TextsUpTo(MaxLen)} \cup {NaN}
    /\ p_result = <<>>
    /\ p_done = FALSE
    /\ IdleCtx
    /\ IdleReq

CallParse ==
    /\ ~p_done
    /\ p_result' = parse_site_name(p_raw)
    /\ p_done' = TRUE
    /\ UNCHANGED <<p_raw, ctxVars, reqVars>>

NextParse == CallParse

SpecParse == InitParse /\ [][NextParse]_vars

HyphenCount(s) == Cardinality({i \in 1..Len(s) : s[i] = Hyphen})

\* t is x without its leading and trailing whitespace.
IsTrimOf(t, x) ==
    /\ (t # <<>> => t[1] # Space /\ t[Len(t)] # Space)
    /\ \E a \in 0..Len(x) :
          /\ a + Len(t) <= Len(x)
          /\ SubSeq(x, a + 1, a + Len(t)) = t
          /\ \A i \in (1..a) \cup ((a + Len(t) + 1)..Len(x)) : x[i] = Space

\* x is z, a hyphen, u, a hyphen, s, with no hyphen in z or u.
IsZoneUnitSite(x, z, u, s) ==
    /\ x = z \o <<Hyphen>> \o u \o <<Hyphen>> \o s
    /\ HyphenCount(z) = 0
    /\ HyphenCount(u) = 0

\* C8 as stated: with at least 2 hyphens the three results are exactly the
\* first segment, the second segment and the remainder after the second
\* hyphen; with fewer, zone and unit are empty and the site name is the
\* trimmed input.
C8_ExactSegments ==
    (p_done /\ isinstance_str(p_raw)) =>
        IF HyphenCount(p_raw.v) >= 2
        THEN IsZoneUnitSite(p_raw.v, p_result[1], p_result[2], p_result[3])
        ELSE /\ p_result[1] = <<>>
             /\ p_result[2] = <<>>
             /\ IsTrimOf(p_result[3], p_raw.v)

\* C8 amended: with at least 2 hyphens the three results are the first
\* segment, the second segment and the remainder after the second hyphen
\* (further hyphens kept), each with its leading and trailing whitespace
\* removed; with fewer, zone and unit are empty and the site name is the
\* trimmed input.
C8_TrimmedSegments ==
    (p_done /\ isinstance_str(p_raw)) =>
        IF HyphenCount(p_raw.v) >= 2
        THEN \E i, j \in 1..Len(p_raw.v) :
                /\ i < j
                /\ IsZoneUnitSite(p_raw.v, SubSeq(p_raw.v, 1, i - 1),
                                  SubSeq(p_raw.v, i + 1, j - 1),
                                  SubSeq(p_raw.v, j + 1, Len(p_raw.v)))
                /\ IsTrimOf(p_result[1], SubSeq(p_raw.v, 1, i - 1))
                /\ IsTrimOf(p_result[2], SubSeq(p_raw.v, i + 1, j - 1))
                /\ IsTrimOf(p_result[3], SubSeq(p_raw.v, j + 1, Len(p_raw.v)))
        ELSE /\ p_result[1] = <<>>
             /\ p_result[2] = <<>>
             /\ IsTrimOf(p_result[3], p_raw.v)

\* A text that starts with whitespace and holds three hyphens has been
\* parsed, and the third hyphen is kept in the site name.
C8_Witness ==
    /\ p_done
    /\ isinstance_str(p_raw)
    /\ HyphenCount(p_raw.v) = 3
    /\ p_raw.v[1] = Space
    /\ HyphenCount(p_result[3]) = 1

InitCtx ==
    /\ c_row \in CtxRows
    /\ c_ctx = <<>>
    /\ c_done = FALSE
    /\ IdleParse
    /\ IdleReq

CallBuildContext ==
    /\ ~c_done
    /\ c_ctx' = build_context_from_row(c_row)
    /\ c_done' = TRUE
    /\ UNCHANGED <<c_row, parseVars, reqVars>>

NextCtx == CallBuildContext

SpecCtx == InitCtx /\ [][NextCtx]_vars

CtxFields ==
    {"zone", "unit_code", "site_name", "date", "time", "attendance_register",
     "handling_register", "material_register", "grooming", "alertness",
     "post_discipline", "overall_rating", "observation", "inspected_by"}

\* The column a context field is read from.
SourceColumn(k) ==
    CASE k \in {"zone", "unit_code", "site_name"} -> "Site Name"
      [] k = "date" -> "Date"
      [] OTHER -> CopiedColumn[k]

MissingOrNull(row, col) == col \notin DOMAIN row \/ row[col] \in {NaN, None}

\* C7 as stated: the context has all 14 recognized fields, and every field
\* whose source column is missing or null is the empty string.
C7_EveryFieldPresentAndNullsEmpty ==
    c_done =>
        /\ CtxFields \subseteq DOMAIN c_ctx
        /\ \A k \in CtxFields : MissingOrNull(c_row, SourceColumn(k)) => c_ctx[k] = EmptyStr

====
